---- MODULE Spec2Model ----
(***************************************************************************)
(* Model of src/api.py: a Flask service that loads a COVID-19 time-series  *)
(* CSV into a pandas DataFrame at import time (load_df) and serves         *)
(* /api/health, /api/metadata, /api/summary and /api/cases over it.        *)
(*                                                                         *)
(* A DataFrame is a record [columns, rows]: columns is the sequence of     *)
(* column labels, rows the sequence of rows in positional order, each row  *)
(* carrying its pandas index label (idx) and its cells by column position. *)
(* Labels and the limit argument are sequences of one-character strings so *)
(* that str.strip / str.lower / str.replace and int() are computed, and    *)
(* cells are tagged values so that NaN / NaT are distinct from numbers.    *)
(* A computation over DataFrames is a record [src, cur, alias, err]: src   *)
(* is the shared object it was given (the raw table, or DF), cur the       *)
(* object its local variable names now, alias whether the two are one      *)
(* object (so that an in-place assignment to cur is seen in src), and err  *)
(* the exception raised so far ("" when none).                             *)
(***************************************************************************)
EXTENDS Integers, Sequences, FiniteSets, TLC

VARIABLES
    phase,      \* "boot" | "failed" | "idle" | "responded"
    raw,        \* the table pd.read_csv(DATA_PATH) yields
    DF,         \* the module-level DataFrame DF (meaningful once loaded)
    tieRank,    \* how this build's quicksort orders rows with equal dates
    request,    \* the request being answered
    response,   \* the response of the request being answered
    locals,     \* the handler's local variables when it returned
    memo        \* a (request, response) pair a client has kept

vars == <<phase, raw, DF, tieRank, request, response, locals, memo>>

-----------------------------------------------------------------------------
(* Bounds of the model *)

MaxRows == 2        \* raw rows in the service life-cycle specification
CasesRows == 3      \* raw rows in the record-listing specification
KpiRows == 8        \* raw rows in the summary specification (window is 7)
MaxLabelLen == 3    \* characters of a raw column label in SpecNorm

(* Program constants *)

KpiWindow == 7
DefaultLimit == 3000
MinLimit == 1
MaxLimit == 20000
StatusOk == 200
StatusError == 500

-----------------------------------------------------------------------------
(* Cell values *)

The(S) == CHOOSE x \in S : TRUE

Str(s) == [k |-> "str", s |-> s, n |-> 0]
Num(n) == [k |-> "num", s |-> "", n |-> n]
Ts(t)  == [k |-> "ts",  s |-> "", n |-> t]
TsTz(t) == [k |-> "tstz", s |-> "", n |-> t]   \* a tz-aware Timestamp
NaN    == [k |-> "nan", s |-> "", n |-> 0]
NaT    == [k |-> "nat", s |-> "", n |-> 0]

\* pd.notna / pd.isna
notna(v) == v.k \notin {"nan", "nat"}

-----------------------------------------------------------------------------
(* Strings as sequences of characters *)

UpperChars == <<"A","B","C","D","E","F","G","H","I","J","K","L","M",
                "N","O","P","Q","R","S","T","U","V","W","X","Y","Z">>
LowerChars == <<"a","b","c","d","e","f","g","h","i","j","k","l","m",
                "n","o","p","q","r","s","t","u","v","w","x","y","z">>
Whitespace == {" ", "\t", "\n"}

LowerChar(c) ==
    IF \E i \in 1..26 : UpperChars[i] = c
    THEN LowerChars[CHOOSE i \in 1..26 : UpperChars[i] = c]
    ELSE c

\* str.lower()
StrLower(s) == [i \in 1..Len(s) |-> LowerChar(s[i])]

\* str.strip(): drop leading and trailing whitespace
StrStrip(s) ==
    LET keep == {i \in 1..Len(s) : s[i] \notin Whitespace}
    IN  IF keep = {} THEN <<>>
        ELSE LET lo == CHOOSE i \in keep : \A j \in keep : i <= j
                 hi == CHOOSE i \in keep : \A j \in keep : j <= i
             IN  SubSeq(s, lo, hi)

\* str.replace(old, new) for one-character old and new
StrReplace(s, old, new) == [i \in 1..Len(s) |-> IF s[i] = old THEN new ELSE s[i]]

\* A variant that writes a space for every slash
NormalizeLabelSlashToSpace(s) ==
    StrReplace(StrReplace(StrLower(StrStrip(s)), " ", "_"), "/", " ")

\* df.columns.str.strip().str.lower().str.replace(" ", "_").str.replace("/", "_")
NormalizeLabel(s) ==
    StrReplace(StrReplace(StrLower(StrStrip(s)), " ", "_"), "/", "_")

-----------------------------------------------------------------------------
(* DataFrame objects *)

\* The local variable df names the shared object itself
Named(f) == [src |-> f, cur |-> f, alias |-> TRUE, err |-> ""]

\* cur becomes a new object holding frame f
Fresh(o, f) == [o EXCEPT !.cur = f, !.alias = FALSE]

\* cur is assigned to in place
Assigned(o, f) == [o EXCEPT !.cur = f, !.src = IF o.alias THEN f ELSE @]

\* df.copy()
Copy(o) == Fresh(o, o.cur)

\* normalize_columns(df): df = df.copy(), then df.columns = ... on the copy
normalize_columns(o) ==
    The({ Assigned(c, [c.cur EXCEPT !.columns =
                        [i \in 1..Len(c.cur.columns) |-> NormalizeLabel(c.cur.columns[i])]])
          : c \in {Copy(o)} })

-----------------------------------------------------------------------------
(* Column labels the code names *)

L_date == <<"d","a","t","e">>
L_location == <<"l","o","c","a","t","i","o","n">>
L_location_level == <<"l","o","c","a","t","i","o","n","_","l","e","v","e","l">>
L_new_cases == <<"n","e","w","_","c","a","s","e","s">>
L_new_deaths == <<"n","e","w","_","d","e","a","t","h","s">>
L_total_cases == <<"t","o","t","a","l","_","c","a","s","e","s">>
L_total_deaths == <<"t","o","t","a","l","_","d","e","a","t","h","s">>
L_latitude == <<"l","a","t","i","t","u","d","e">>
L_longitude == <<"l","o","n","g","i","t","u","d","e">>

-----------------------------------------------------------------------------
(* DataFrames *)

NoFrame == [columns |-> <<>>, rows |-> <<>>]

\* "c in df.columns"
HasCol(f, c) == \E i \in 1..Len(f.columns) : f.columns[i] = c

ColIndex(f, c) == CHOOSE i \in 1..Len(f.columns) : f.columns[i] = c

\* row[c] for a row of frame f
Cell(f, row, c) == row.cells[ColIndex(f, c)]

\* df[c]: the cells of column c, one per row
Column(f, c) ==
    The({ [i \in 1..Len(f.rows) |-> f.rows[i].cells[ci]] : ci \in {ColIndex(f, c)} })

\* rows[mask]: the rows at the positions K, in order (boolean indexing)
SelectAt(rows, K) ==
    [p \in 1..Cardinality(K) |->
        rows[CHOOSE i \in K : Cardinality({j \in K : j < i}) = p - 1]]

-----------------------------------------------------------------------------
(* Dates.  A timestamp is a number of half days since 2021-01-01 00:00. *)

\* pd.to_datetime(text, errors="coerce") on the texts the model uses
ParseDate(s) ==
    CASE s = "2021-01-01"          -> Ts(0)
      [] s = "2021-01-01 12:00:00" -> Ts(1)
      [] s = "2021-01-02"          -> Ts(2)
      [] s = "2021-01-02 12:00:00" -> Ts(3)
      [] s = "2021-01-03"          -> Ts(4)
      [] s = "2021-01-02T00:00:00Z" -> TsTz(2)
      [] OTHER                     -> NaT

\* pd.to_datetime of one cell of a column
ToDatetimeCell(v) ==
    IF v.k = "str" THEN ParseDate(v.s) ELSE IF v.k = "ts" THEN v ELSE NaT

\* Timestamp.date().isoformat() and strftime("%Y-%m-%d"): the time is dropped
DateIso(t) ==
    CASE t \div 2 = 0 -> "2021-01-01"
      [] t \div 2 = 1 -> "2021-01-02"
      [] t \div 2 = 2 -> "2021-01-03"

\* v.date().isoformat() for v a Timestamp or NaT: NaT.date() is NaT, and
\* NaT.isoformat() is the text "NaT"
DateIsoOf(v) == IF v.k = "nat" THEN "NaT" ELSE DateIso(v.n)

-----------------------------------------------------------------------------
(* load_df *)

\* A variant that requires only the date column
RequireColumnsDateOnly(o) ==
    IF ~HasCol(o.cur, L_date) THEN [o EXCEPT !.err = "No date column found"]
    ELSE o

\* The two "required" checks, each raising ValueError
RequireColumns(o) ==
    IF ~HasCol(o.cur, L_date) THEN [o EXCEPT !.err = "No date column found"]
    ELSE IF ~HasCol(o.cur, L_location)
    THEN [o EXCEPT !.err = "No location column found"]
    ELSE o

\* df["date"] = pd.to_datetime(df["date"], errors="coerce"), in place
ParseDateColumn(o) ==
    IF o.err # "" THEN o
    ELSE The({ Assigned(o, [o.cur EXCEPT !.rows = [i \in 1..Len(o.cur.rows) |->
                    [o.cur.rows[i] EXCEPT !.cells[ci] = ToDatetimeCell(@)]]])
               : ci \in {ColIndex(o.cur, L_date)} })

\* A variant that keeps the rows whose date did not parse
DropNaDateKeepAll(o) == IF o.err # "" THEN o ELSE Fresh(o, o.cur)

\* df = df.dropna(subset=["date"])
DropNaDate(o) ==
    IF o.err # "" THEN o
    ELSE The({ Fresh(o, [o.cur EXCEPT !.rows =
                    SelectAt(o.cur.rows, {i \in 1..Len(d) : notna(d[i])})])
               : d \in {Column(o.cur, L_date)} })

\* A variant that writes the sentinel in lower case
WithLocationLevelLowercase(o) ==
    IF o.err = "" /\ ~HasCol(o.cur, L_location_level)
    THEN Assigned(o, [columns |-> Append(o.cur.columns, L_location_level),
                      rows |-> [i \in 1..Len(o.cur.rows) |->
                        [o.cur.rows[i] EXCEPT !.cells = Append(@, Str("unknown"))]]])
    ELSE o

\* if "location_level" not in df.columns: df["location_level"] = "Unknown"
WithLocationLevel(o) ==
    IF o.err = "" /\ ~HasCol(o.cur, L_location_level)
    THEN Assigned(o, [columns |-> Append(o.cur.columns, L_location_level),
                      rows |-> [i \in 1..Len(o.cur.rows) |->
                        [o.cur.rows[i] EXCEPT !.cells = Append(@, Str("Unknown"))]]])
    ELSE o

\* load_df() on the table read_csv returned: cur is the frame returned,
\* err the ValueError raised
load_df(table) ==
    The({ WithLocationLevel(d) : d \in
        { DropNaDate(p) : p \in
            { ParseDateColumn(c) : c \in
                { RequireColumns(n) : n \in {normalize_columns(Named(table))} } } } })

-----------------------------------------------------------------------------
(* The tables read_csv can return: raw labels, and rows of cells *)

RL_Date == <<"D","a","t","e">>
RL_DATE_padded == <<" ","D","A","T","E"," ">>
RL_Day == <<"D","a","y">>
RL_Location == <<"L","o","c","a","t","i","o","n">>
RL_Province == <<"P","r","o","v","i","n","c","e">>
RL_Location_Level == <<"L","o","c","a","t","i","o","n"," ","L","e","v","e","l">>
RL_New_Cases == <<"N","e","w"," ","C","a","s","e","s">>
RL_New_Deaths == <<"N","e","w","/","D","e","a","t","h","s">>
RL_Total_Cases == <<"T","o","t","a","l"," ","C","a","s","e","s">>
RL_Total_Deaths == <<"T","o","t","a","l","/","D","e","a","t","h","s">>
RL_Latitude == <<"L","a","t","i","t","u","d","e">>

Col(label, field) == [label |-> label, field |-> field]

SchemaFull ==
    << Col(RL_Date, "date"), Col(RL_Location, "location"),
       Col(RL_Location_Level, "level"), Col(RL_New_Cases, "nc"),
       Col(RL_New_Deaths, "nd"), Col(RL_Total_Cases, "tc"),
       Col(RL_Total_Deaths, "td") >>
SchemaPlain == << Col(RL_DATE_padded, "date"), Col(RL_Location, "location") >>
SchemaNoLevel ==
    << Col(RL_Location, "location"), Col(RL_Date, "date"),
       Col(RL_Total_Cases, "tc"), Col(RL_New_Cases, "nc"),
       Col(RL_Latitude, "lat") >>
SchemaNoDate ==
    << Col(RL_Day, "date"), Col(RL_Location, "location"),
       Col(RL_Location_Level, "level") >>
SchemaNoLocation ==
    << Col(RL_Date, "date"), Col(RL_Province, "location"),
       Col(RL_New_Cases, "nc") >>

\* One CSV line by field
Line(d, loc, lvl, nc, nd, tc, td) ==
    [date |-> d, location |-> loc, level |-> lvl, nc |-> nc, nd |-> nd,
     tc |-> tc, td |-> td, lat |-> Num(5)]

\* The table with the given schema and lines; read_csv numbers the rows from 0
RawTable(schema, lines) ==
    [columns |-> [j \in 1..Len(schema) |-> schema[j].label],
     rows |-> [i \in 1..Len(lines) |->
        [idx |-> i - 1,
         cells |-> [j \in 1..Len(schema) |-> lines[i][schema[j].field]]]]]

SeqsUpTo(S, n) == UNION {[1..k -> S] : k \in 0..n}

RawTables(schemas, pool, n) ==
    {RawTable(sch, lines) : sch \in schemas, lines \in SeqsUpTo(pool, n)}

\* The orders a sort may give rows of equal date, as a ranking of the index
\* labels: one build leaves equal dates in index order, another reverses them
Rankings(n) ==
    { [i \in 0..(n - 1) |-> i], [i \in 0..(n - 1) |-> n - 1 - i] }

-----------------------------------------------------------------------------
(* Request arguments: a function from the keys given to their text.        *)
(* request.args.get(k) is None for a key not given.                        *)

\* "if x:" for x = request.args.get(k): given and not the empty string
Truthy(args, k) == k \in DOMAIN args /\ args[k] # ""

-----------------------------------------------------------------------------
(* apply_filters *)

\* out[out[col] == text]
FilterEq(f, col, text) ==
    The({ [f EXCEPT !.rows =
            SelectAt(f.rows, {i \in 1..Len(c) : c[i].k = "str" /\ c[i].s = text})]
          : c \in {Column(f, col)} })

\* if level: out = out[out["location_level"] == level]
FilterLevel(o, args) ==
    IF o.err = "" /\ Truthy(args, "level")
    THEN Fresh(o, FilterEq(o.cur, L_location_level, args["level"]))
    ELSE o

\* if location: out = out[out["location"] == location]
FilterLocation(o, args) ==
    IF o.err = "" /\ Truthy(args, "location")
    THEN Fresh(o, FilterEq(o.cur, L_location, args["location"]))
    ELSE o

\* Comparing the tz-naive date column with a tz-aware Timestamp raises
CompareError(s) == IF s.k = "tstz" THEN "TypeError" ELSE ""

\* out = out[out["date"] >= s]
FilterGe(o, s) ==
    IF CompareError(s) # "" THEN [o EXCEPT !.err = CompareError(s)]
    ELSE The({ Fresh(o, [o.cur EXCEPT !.rows =
                    SelectAt(o.cur.rows, {i \in 1..Len(d) : d[i].n >= s.n})])
               : d \in {Column(o.cur, L_date)} })

\* out = out[out["date"] <= e]
FilterLe(o, e) ==
    IF CompareError(e) # "" THEN [o EXCEPT !.err = CompareError(e)]
    ELSE The({ Fresh(o, [o.cur EXCEPT !.rows =
                    SelectAt(o.cur.rows, {i \in 1..Len(d) : d[i].n <= e.n})])
               : d \in {Column(o.cur, L_date)} })

\* if start: s = pd.to_datetime(start, errors="coerce");
\*           if pd.notna(s): out = out[out["date"] >= s]
FilterStart(o, args) ==
    IF o.err = "" /\ Truthy(args, "start") /\ notna(ParseDate(args["start"]))
    THEN FilterGe(o, ParseDate(args["start"]))
    ELSE o

\* if end: e = pd.to_datetime(end, errors="coerce");
\*         if pd.notna(e): out = out[out["date"] <= e]
FilterEnd(o, args) ==
    IF o.err = "" /\ Truthy(args, "end") /\ notna(ParseDate(args["end"]))
    THEN FilterLe(o, ParseDate(args["end"]))
    ELSE o

\* apply_filters(df): "out = df" is an alias, so with no clause applied the
\* frame returned is the frame passed in
apply_filters(o, args) ==
    The({ FilterEnd(o3, args) : o3 \in
        { FilterStart(o2, args) : o2 \in
            { FilterLocation(o1, args) : o1 \in {FilterLevel(o, args)} } } })

-----------------------------------------------------------------------------
(* sort_values("date"), tail *)

\* The sort key of each row: its date, then the rank of its index label
SortKeys(f, rank) ==
    The({ [i \in 1..Len(d) |-> <<d[i].n, rank[f.rows[i].idx]>>]
          : d \in {Column(f, L_date)} })

\* Key a is placed before key b
KeyBefore(a, b) == a[1] < b[1] \/ (a[1] = b[1] /\ a[2] < b[2])

\* The rows of f by ascending date, equal dates in the order rank gives
SortRows(f, rank) ==
    The({ [p \in 1..Len(k) |->
            f.rows[CHOOSE i \in 1..Len(k) :
                Cardinality({j \in 1..Len(k) : KeyBefore(k[j], k[i])}) = p - 1]]
          : k \in {SortKeys(f, rank)} })

\* A variant that sorts the frame it is given (inplace=True)
sort_values_inplace(o, rank) ==
    IF o.err # "" THEN o
    ELSE Assigned(o, [o.cur EXCEPT !.rows = SortRows(o.cur, rank)])

\* df.sort_values("date"): a new frame
sort_values(o, rank) ==
    IF o.err # "" THEN o
    ELSE Fresh(o, [o.cur EXCEPT !.rows = SortRows(o.cur, rank)])

\* A variant that takes the first n rows
HeadRows(rows, n) == IF n >= Len(rows) THEN rows ELSE SubSeq(rows, 1, n)

\* df.tail(n) for n >= 1: the last n rows
TailRows(rows, n) ==
    IF n >= Len(rows) THEN rows ELSE SubSeq(rows, Len(rows) - n + 1, Len(rows))

-----------------------------------------------------------------------------
(* Aggregates *)

Max(a, b) == IF a >= b THEN a ELSE b
Min(a, b) == IF a <= b THEN a ELSE b

\* df["date"].min() / .max(): NaT for a frame without rows
DateMin(f) ==
    IF f.rows = <<>> THEN NaT
    ELSE The({ Ts(CHOOSE t \in D : \A e \in D : t <= e)
               : D \in {{v.n : v \in {Column(f, L_date)[i] : i \in 1..Len(f.rows)}}} })
DateMax(f) ==
    IF f.rows = <<>> THEN NaT
    ELSE The({ Ts(CHOOSE t \in D : \A e \in D : t >= e)
               : D \in {{v.n : v \in {Column(f, L_date)[i] : i \in 1..Len(f.rows)}}} })

\* The sum of the cells c[i], i from lo to hi, a missing one counting 0
RECURSIVE SumCells(_, _, _)
SumCells(c, lo, hi) ==
    IF lo > hi THEN 0
    ELSE (IF notna(c[lo]) THEN c[lo].n ELSE 0) + SumCells(c, lo + 1, hi)

\* int(df.tail(n)[col].fillna(0).sum())
TailSum(f, col, n) ==
    The({ SumCells(c, Len(c) - Len(TailRows(f.rows, n)) + 1, Len(c))
          : c \in {Column(f, col)} })

\* A variant that sums the first n rows
HeadSum(f, col, n) ==
    The({ SumCells(c, 1, Len(HeadRows(f.rows, n))) : c \in {Column(f, col)} })

\* sorted() of a set of texts: by code point, capitals before small letters
TextOrder == <<"", "Unknown", "X", "Y", "Z", "country", "province", "unknown">>
TextRank(t) == CHOOSE i \in 1..Len(TextOrder) : TextOrder[i] = t
SortedTexts(S) ==
    [p \in 1..Cardinality(S) |->
        CHOOSE t \in S : Cardinality({u \in S : TextRank(u) < TextRank(t)}) = p - 1]

\* The texts of column col in the rows of f whose location_level is lv
\* (every row when lv is ""), without the missing ones: .dropna().unique()
Uniques(f, col, lv) ==
    The({ {c[i].s : i \in {j \in 1..Len(c) :
                /\ notna(c[j])
                /\ lv # "" => (l[j].k = "str" /\ l[j].s = lv)}}
          : c \in {Column(f, col)}, l \in {Column(f, L_location_level)} })

-----------------------------------------------------------------------------
(* int(text) *)

DigitChars == <<"0","1","2","3","4","5","6","7","8","9">>
IsDigit(c) == \E i \in 1..10 : DigitChars[i] = c
DigitValue(c) == (CHOOSE i \in 1..10 : DigitChars[i] = c) - 1

RECURSIVE DigitsValue(_)
DigitsValue(ds) ==
    IF ds = <<>> THEN 0
    ELSE 10 * DigitsValue(SubSeq(ds, 1, Len(ds) - 1)) + DigitValue(ds[Len(ds)])

\* The text after its sign
Unsigned(t) == IF t # <<>> /\ t[1] \in {"+", "-"} THEN Tail(t) ELSE t

\* int() accepts t (already stripped): a sign, then digits, single
\* underscores allowed between digits
IsIntText(t) ==
    /\ Unsigned(t) # <<>>
    /\ \A i \in 1..Len(Unsigned(t)) :
        \/ IsDigit(Unsigned(t)[i])
        \/ /\ Unsigned(t)[i] = "_"
           /\ 1 < i /\ i < Len(Unsigned(t))
           /\ IsDigit(Unsigned(t)[i - 1]) /\ IsDigit(Unsigned(t)[i + 1])

\* int(text): [ok, n]; ok is FALSE where Python raises ValueError.  White
\* space around the number is dropped first.
ParseInt(text) ==
    IF ~IsIntText(StrStrip(text)) THEN [ok |-> FALSE, n |-> 0]
    ELSE [ok |-> TRUE,
          n |-> IF StrStrip(text)[1] = "-"
                THEN 0 - DigitsValue(SelectSeq(Unsigned(StrStrip(text)), IsDigit))
                ELSE DigitsValue(SelectSeq(Unsigned(StrStrip(text)), IsDigit))]

DefaultLimitText == <<"3","0","0","0">>

\* request.args.get("limit", default="3000")
LimitText(args) == IF "limit" \in DOMAIN args THEN args["limit"] ELSE DefaultLimitText

\* A variant without the lower clamp
LimitOfNoFloor(args) ==
    IF ParseInt(LimitText(args)).ok
    THEN Min(ParseInt(LimitText(args)).n, MaxLimit)
    ELSE DefaultLimit

\* limit_n = max(1, min(int(limit), 20000)), 3000 on ValueError
LimitOf(args) ==
    IF ParseInt(LimitText(args)).ok
    THEN Max(MinLimit, Min(ParseInt(LimitText(args)).n, MaxLimit))
    ELSE DefaultLimit

-----------------------------------------------------------------------------
(* Responses *)

EmptyDict == [x \in {} |-> NaN]

Response(endpoint, status, body) ==
    [endpoint |-> endpoint, status |-> status, body |-> body]

\* An exception that leaves the view function: Flask answers 500
Raised(endpoint, err) == Response(endpoint, StatusError, [error |-> err])

\* health()
health_response == Response("health", StatusOk, [status |-> "ok"])

\* metadata(); NaT.date() is NaT and NaT.isoformat() is "NaT"
metadata_response(f) ==
    Response("metadata", StatusOk,
        [min_date |-> DateIsoOf(DateMin(f)),
         max_date |-> DateIsoOf(DateMax(f)),
         row_count |-> Len(f.rows),
         columns |-> f.columns,
         levels |-> SortedTexts(Uniques(f, L_location_level, "")),
         locations_by_level |->
            [lv \in Uniques(f, L_location_level, "") |->
                SortedTexts(Uniques(f, L_location, lv))]])

\* A variant that reads the first row of the sorted view
TotalKpiFirstRow(f, col, key) ==
    IF HasCol(f, col) /\ notna(Cell(f, f.rows[1], col))
    THEN key :> Num(Cell(f, f.rows[1], col).n)
    ELSE EmptyDict

\* The kpi entry for a total: present when the column exists and the last
\* row's value is not missing
TotalKpi(f, col, key) ==
    IF HasCol(f, col) /\ notna(Cell(f, f.rows[Len(f.rows)], col))
    THEN key :> Num(Cell(f, f.rows[Len(f.rows)], col).n)
    ELSE EmptyDict

\* A variant that sums the first rows of the sorted view
WindowKpiHead(f, col, key) ==
    IF HasCol(f, col) THEN key :> Num(HeadSum(f, col, KpiWindow)) ELSE EmptyDict

\* The kpi entry for a trailing sum: present when the column exists
WindowKpi(f, col, key) ==
    IF HasCol(f, col) THEN key :> Num(TailSum(f, col, KpiWindow)) ELSE EmptyDict

\* kpi = {"min_date": ..., "max_date": ...}
DateKpi(f) ==
    ("min_date" :> Str(DateIsoOf(DateMin(f))))
    @@ ("max_date" :> Str(DateIsoOf(DateMax(f))))

\* summary(), from the sorted view (o.cur) on
summary_response(o) ==
    IF o.err # "" THEN Raised("summary", o.err)
    ELSE IF o.cur.rows = <<>>
    THEN Response("summary", StatusOk,
            [count |-> 0, kpi |-> EmptyDict, message |-> "No data for filters"])
    ELSE Response("summary", StatusOk,
            [count |-> Len(o.cur.rows),
             kpi |-> DateKpi(o.cur)
                     @@ TotalKpi(o.cur, L_total_cases, "total_cases")
                     @@ TotalKpi(o.cur, L_total_deaths, "total_deaths")
                     @@ WindowKpi(o.cur, L_new_cases, "new_cases_7d")
                     @@ WindowKpi(o.cur, L_new_deaths, "new_deaths_7d")])

\* df = df.tail(limit_n)
tail(o, n) ==
    IF o.err # "" THEN o ELSE Fresh(o, [o.cur EXCEPT !.rows = TailRows(@, n)])

\* The allow-list of cases(), in its order
CasesColumns ==
    << L_date, L_location, L_location_level, L_new_cases, L_new_deaths,
       L_total_cases, L_total_deaths, L_latitude, L_longitude >>

\* cols = [c for c in [...] if c in df.columns]
ColsOf(f) == SelectSeq(CasesColumns, LAMBDA c : HasCol(f, c))

\* df[cols]: a new frame with the columns cols
SelectColumns(o) ==
    IF o.err # "" THEN o
    ELSE The({ Fresh(o, [columns |-> [j \in 1..Len(ci) |-> o.cur.columns[ci[j]]],
                         rows |-> [i \in 1..Len(o.cur.rows) |->
                            [idx |-> o.cur.rows[i].idx,
                             cells |-> [j \in 1..Len(ci) |-> o.cur.rows[i].cells[ci[j]]]]]])
               : ci \in {[j \in 1..Len(ColsOf(o.cur)) |->
                            ColIndex(o.cur, ColsOf(o.cur)[j])]} })

\* out["date"] = out["date"].dt.strftime("%Y-%m-%d"), in place
FormatDateColumn(o) ==
    IF o.err # "" THEN o
    ELSE The({ Assigned(o, [o.cur EXCEPT !.rows = [i \in 1..Len(o.cur.rows) |->
                    [o.cur.rows[i] EXCEPT !.cells[ci] = Str(DateIso(@.n))]]])
               : ci \in {ColIndex(o.cur, L_date)} })

\* out = df[cols].copy(); out["date"] = ...
cases_out(o) ==
    The({ FormatDateColumn(c) : c \in {Copy(sel) : sel \in {SelectColumns(o)}} })

\* out.to_dict(orient="records")
ToRecords(f) ==
    [i \in 1..Len(f.rows) |->
        [c \in {f.columns[j] : j \in 1..Len(f.columns)} |->
            f.rows[i].cells[ColIndex(f, c)]]]

\* cases(), from out (o.cur) on
cases_response(o) ==
    IF o.err # "" THEN Raised("cases", o.err)
    ELSE Response("cases", StatusOk,
            [count |-> Len(o.cur.rows), data |-> ToRecords(o.cur)])

-----------------------------------------------------------------------------
(* State *)

NoRequest == [endpoint |-> "none", args |-> EmptyDict]
NoResponse == Response("none", 0, EmptyDict)
NoMemo == [request |-> NoRequest, response |-> NoResponse]

\* The state at import, before "DF = load_df()" runs, for a table and a build
InitWith(tables, rankings) ==
    /\ phase = "boot"
    /\ raw \in tables
    /\ tieRank \in rankings
    /\ DF = NoFrame
    /\ request = NoRequest
    /\ response = NoResponse
    /\ locals = EmptyDict
    /\ memo = NoMemo

-----------------------------------------------------------------------------
(* Actions *)

\* DF = load_df(): a ValueError ends the import, and nothing is ever served
Load ==
    /\ phase = "boot"
    /\ \E l \in {load_df(raw)} :
        /\ IF l.err = "" THEN phase' = "idle" /\ DF' = l.cur
                         ELSE phase' = "failed" /\ DF' = DF
        /\ raw' = l.src
        /\ locals' = IF l.err = "" THEN EmptyDict ELSE "error" :> l.err
    /\ UNCHANGED <<tieRank, request, response, memo>>

\* A view function has run to its return on the loaded service
Handled(req, resp, loc, df) ==
    /\ phase = "idle"
    /\ phase' = "responded"
    /\ request' = req
    /\ response' = resp
    /\ locals' = loc
    /\ DF' = df
    /\ UNCHANGED <<raw, tieRank, memo>>

Health ==
    /\ phase = "idle"
    /\ Handled([endpoint |-> "health", args |-> EmptyDict],
               health_response, EmptyDict, DF)

Metadata ==
    /\ phase = "idle"
    /\ Handled([endpoint |-> "metadata", args |-> EmptyDict],
            metadata_response(DF), EmptyDict, DF)

\* summary(): df = apply_filters(DF).sort_values("date"), then the kpi
Summary(args) ==
    /\ phase = "idle"
    /\ \E a \in {apply_filters(Named(DF), args)} :
       \E s \in {sort_values(a, tieRank)} :
        Handled([endpoint |-> "summary", args |-> args],
                summary_response(s),
                IF s.err # "" THEN EmptyDict
                ELSE ("view" :> a.cur) @@ ("df" :> s.cur),
                s.src)

\* cases(): filter, sort, limit, tail, select, copy, format
Cases(args) ==
    /\ phase = "idle"
    /\ \E a \in {apply_filters(Named(DF), args)} :
       \E s \in {sort_values(a, tieRank)} :
       \E t \in {tail(s, LimitOf(args))} :
       \E o \in {cases_out(t)} :
        Handled([endpoint |-> "cases", args |-> args],
                cases_response(o),
                IF o.err # "" THEN EmptyDict
                ELSE ("view" :> a.cur) @@ ("sorted" :> s.cur)
                     @@ ("limit_n" :> LimitOf(args)) @@ ("out" :> o.cur),
                o.src)

\* The response is sent; the request and the handler's locals are gone
Return ==
    /\ phase = "responded"
    /\ phase' = "idle"
    /\ request' = NoRequest
    /\ response' = NoResponse
    /\ locals' = EmptyDict
    /\ UNCHANGED <<raw, DF, tieRank, memo>>

\* A client keeps the response it got, to compare later ones with
Remember ==
    /\ phase = "responded"
    /\ memo = NoMemo
    /\ memo' = [request |-> request, response |-> response]
    /\ UNCHANGED <<phase, raw, DF, tieRank, request, response, locals>>

-----------------------------------------------------------------------------
(* Request arguments the specifications draw from *)

Opt(k, V) == {EmptyDict} \cup {k :> v : v \in V}

ArgsOf(Locs, Levels, Starts, Ends, Limits) ==
    {a @@ b @@ c @@ d @@ e :
        a \in Opt("location", Locs), b \in Opt("level", Levels),
        c \in Opt("start", Starts), d \in Opt("end", Ends),
        e \in Opt("limit", Limits)}

-----------------------------------------------------------------------------
(* Spec: the life cycle of the service, from import to requests *)

LifeLines ==
    { Line(Str("2021-01-02"), NaN, Str("province"), NaN, Num(2), Num(15), NaN),
      Line(Str("2021-01-01"), Str("X"), Str("country"), Num(1), NaN, Num(10), Num(1)),
      Line(Str("not-a-date"), Str("Y"), Str("country"), Num(2), Num(1), NaN, Num(3)),
      Line(Str("2021-01-01"), Str("Y"), NaN, Num(2), Num(1), NaN, Num(3)) }

LifeSchemas == {SchemaFull, SchemaPlain, SchemaNoLevel, SchemaNoDate, SchemaNoLocation}

LifeSummaryArgs ==
    { EmptyDict,
      "location" :> "X",
      "level" :> "province",
      ("location" :> "") @@ ("start" :> "not-a-date"),
      "start" :> "2021-01-02T00:00:00Z" }

LifeCasesArgs ==
    { EmptyDict,
      ("end" :> "2021-01-01 12:00:00") @@ ("limit" :> <<"1">>),
      "limit" :> <<"x">> }

Init == InitWith(RawTables(LifeSchemas, LifeLines, MaxRows), Rankings(MaxRows))

SummaryLife == \E args \in LifeSummaryArgs : Summary(args)
CasesLife == \E args \in LifeCasesArgs : Cases(args)

Next ==
    \/ Load
    \/ Health
    \/ Metadata
    \/ SummaryLife
    \/ CasesLife
    \/ Return
    \/ Remember

Spec == Init /\ [][Next]_vars

-----------------------------------------------------------------------------
(* SpecNorm: normalize_columns on a table of one raw label, applied once   *)
(* and then again to its own result                                       *)

NormAlphabet == {"A", "b", " ", "\t", "/", "_"}

NormTables ==
    {[columns |-> <<label>>, rows |-> <<>>] : label \in SeqsUpTo(NormAlphabet, MaxLabelLen)}

InitNorm == InitWith(NormTables, {<<>>})

Normalize ==
    /\ phase = "boot"
    /\ locals = EmptyDict
    /\ \E n \in {normalize_columns(Named(raw))} :
        /\ raw' = n.src
        /\ locals' = ("once" :> n.cur)
    /\ UNCHANGED <<phase, DF, tieRank, request, response, memo>>

NormalizeAgain ==
    /\ phase = "boot"
    /\ DOMAIN locals = {"once"}
    /\ \E n \in {normalize_columns(Named(locals["once"]))} :
        locals' = ("once" :> n.src) @@ ("twice" :> n.cur)
    /\ UNCHANGED <<phase, raw, DF, tieRank, request, response, memo>>

NextNorm == Normalize \/ NormalizeAgain

SpecNorm == InitNorm /\ [][NextNorm]_vars

-----------------------------------------------------------------------------
(* SpecKpi: summaries over views longer than the trailing window *)

KpiLines ==
    { Line(Str("2021-01-01"), Str("X"), Str("country"), Num(1), NaN, Num(10), Num(1)),
      Line(Str("2021-01-02"), Str("X"), Str("country"), NaN, Num(1), Num(15), NaN),
      Line(Str("2021-01-02"), Str("Y"), Str("province"), Num(2), Num(2), NaN, Num(2)) }

\* The lines of the bulk of a table; its last two rows are any of KpiLines
KpiBulk ==
    { Line(Str("2021-01-01"), Str("X"), Str("country"), Num(1), NaN, Num(10), Num(1)),
      Line(Str("2021-01-02"), Str("X"), Str("country"), NaN, Num(1), Num(15), NaN) }

KpiTables ==
    { RawTable(SchemaFull, bulk \o last) :
        bulk \in SeqsUpTo(KpiBulk, KpiRows - 2), last \in [1..2 -> KpiLines] }

KpiArgs == { EmptyDict, "location" :> "X", "start" :> "2021-01-02" }

InitKpi ==
    InitWith(KpiTables \cup RawTables({SchemaPlain, SchemaFull}, KpiLines, 1),
             Rankings(KpiRows))

SummaryKpi == \E args \in KpiArgs : Summary(args)

NextKpi == Load \/ SummaryKpi \/ Return

SpecKpi == InitKpi /\ [][NextKpi]_vars

-----------------------------------------------------------------------------
(* SpecCases: the record listing under every kind of limit text *)

CasesLines ==
    { Line(Str("2021-01-01"), Str("X"), Str("country"), Num(1), NaN, Num(10), Num(1)),
      Line(Str("2021-01-02"), Str("X"), Str("country"), NaN, Num(1), Num(15), NaN),
      Line(Str("2021-01-01"), Str("Y"), Str("province"), Num(2), Num(2), NaN, Num(2)) }

LimitTexts ==
    { <<>>, <<"a","b","c">>, <<"0">>, <<"-","5">>, <<"1">>, <<"2">>, <<"+","2">>,
      <<" ","2"," ">>, <<"2",".","5">>, <<"1","_","0">>, <<"_","1">>, <<"3">>,
      <<"2","0","0","0","0">>, <<"2","0","0","0","1">>, <<"9","9","9","9","9">> }

CasesArgs == ArgsOf({"X"}, {}, {}, {}, LimitTexts)

InitCases ==
    InitWith(RawTables({SchemaFull, SchemaNoLevel}, CasesLines, CasesRows),
             Rankings(CasesRows))

CasesListing == \E args \in CasesArgs : Cases(args)

NextCases == Load \/ CasesListing \/ Return

SpecCases == InitCases /\ [][NextCases]_vars

-----------------------------------------------------------------------------
(* Properties *)

Served == phase \in {"idle", "responded"}

\* The raw table has a column whose normalized label is the given one
NormalizedHas(label) ==
    \E i \in 1..Len(raw.columns) : NormalizeLabel(raw.columns[i]) = label

RequiredPresent == NormalizedHas(L_date) /\ NormalizedHas(L_location)

\* The raw cell of row r in the column whose normalized label is the given one
RawCell(r, label) ==
    raw.rows[r].cells[CHOOSE i \in 1..Len(raw.columns) :
                            NormalizeLabel(raw.columns[i]) = label]

\* The position in the raw table of the row with index label x
RawPos(x) == CHOOSE r \in 1..Len(raw.rows) : raw.rows[r].idx = x

Answered(endpoint) ==
    /\ phase = "responded"
    /\ response.endpoint = endpoint
    /\ response.status = StatusOk

\* Row i of DF satisfies every clause the arguments give
Satisfies(i, args) ==
    /\ Truthy(args, "level") =>
            Column(DF, L_location_level)[i] = Str(args["level"])
    /\ Truthy(args, "location") =>
            Column(DF, L_location)[i] = Str(args["location"])
    /\ (Truthy(args, "start") /\ notna(ParseDate(args["start"]))) =>
            Column(DF, L_date)[i].n >= ParseDate(args["start"]).n
    /\ (Truthy(args, "end") /\ notna(ParseDate(args["end"]))) =>
            Column(DF, L_date)[i].n <= ParseDate(args["end"]).n

\* C1: for every Dataset and every Query, apply_filters returns exactly the
\* records of the Dataset that satisfy all the clauses present, in Dataset
\* order; an unparseable start or end restricts nothing, and no clause
\* returns the whole Dataset.
C1_FilterExact ==
    (phase = "responded" /\ request.endpoint \in {"summary", "cases"}) =>
        /\ "view" \in DOMAIN locals
        /\ locals["view"].columns = DF.columns
        /\ locals["view"].rows =
                SelectAt(DF.rows, {i \in 1..Len(DF.rows) : Satisfies(i, request.args)})

\* C2: no request is ever served unless the Dataset was built from a source
\* whose normalized columns include date and location; if either is missing
\* the load fails with an error and the service is never servable.
C2_ServedOnlyWhenLoaded ==
    /\ Served => RequiredPresent
    /\ (request.endpoint # "none" \/ response.endpoint # "none"
            \/ memo.response.endpoint # "none") => Served
    /\ (phase # "boot" /\ ~RequiredPresent) =>
            /\ phase = "failed"
            /\ "error" \in DOMAIN locals
            /\ DF = NoFrame

C2_Witness ==
    /\ phase = "failed"
    /\ NormalizedHas(L_date)
    /\ ~NormalizedHas(L_location)
    /\ raw.rows # <<>>

\* C3: once the service has started, every request returns status 200, for
\* every Dataset a successful load can give and every value of the arguments.
C3_EveryRequestOk == phase = "responded" => response.status = StatusOk

\* C7, with the location: after a successful load every Record has a parsed date and
\* a non-empty location, rows with an unparseable date are gone, and the
\* Dataset is no longer than the raw table.
C7_ValidDateAndLocation ==
    Served =>
        /\ \A i \in 1..Len(DF.rows) :
            /\ Column(DF, L_date)[i].k = "ts"
            /\ Column(DF, L_location)[i].k = "str"
            /\ Column(DF, L_location)[i].s # ""
        /\ Len(DF.rows) <= Len(raw.rows)

\* C7, on the date alone: after a successful load every Record has a parsed date,
\* the Records are exactly the raw rows whose date parses (so the Dataset is
\* no longer than the raw table), and each Record's location is the raw
\* row's, missing where that is missing.
C7_ValidDate ==
    Served =>
        /\ \A i \in 1..Len(DF.rows) :
            /\ Column(DF, L_date)[i].k = "ts"
            /\ Column(DF, L_location)[i] = RawCell(RawPos(DF.rows[i].idx), L_location)
        /\ Len(DF.rows) <= Len(raw.rows)
        /\ {DF.rows[i].idx : i \in 1..Len(DF.rows)}
            = {raw.rows[r].idx : r \in {q \in 1..Len(raw.rows) :
                    RawCell(q, L_date).k = "str"
                    /\ ParseDate(RawCell(q, L_date).s).k = "ts"}}

C7_Witness ==
    /\ Served
    /\ 0 < Len(DF.rows)
    /\ Len(DF.rows) < Len(raw.rows)
    /\ \E i \in 1..Len(DF.rows) : Column(DF, L_location)[i] = NaN

Ascending(texts) ==
    \A i, j \in 1..Len(texts) : i < j => TextRank(texts[i]) < TextRank(texts[j])

\* C9: without a location_level column the load succeeds, every Record has
\* location_level "Unknown", and for a Dataset with Records the metadata
\* lists "Unknown" as the only level, with all the distinct locations of the
\* Dataset, sorted.
C9_UnknownLevel ==
    (phase # "boot" /\ RequiredPresent /\ ~NormalizedHas(L_location_level)) =>
        /\ Served
        /\ \A i \in 1..Len(DF.rows) : Column(DF, L_location_level)[i] = Str("Unknown")
        /\ (Answered("metadata") /\ DF.rows # <<>>) =>
            /\ response.body.levels = <<"Unknown">>
            /\ DOMAIN response.body.locations_by_level = {"Unknown"}
            /\ Ascending(response.body.locations_by_level["Unknown"])
            /\ {response.body.locations_by_level["Unknown"][i] :
                    i \in 1..Len(response.body.locations_by_level["Unknown"])}
               = {Column(DF, L_location)[i].s :
                    i \in {j \in 1..Len(DF.rows) : Column(DF, L_location)[j].k = "str"}}

C9_Witness ==
    /\ Answered("metadata")
    /\ ~NormalizedHas(L_location_level)
    /\ response.body.levels = <<"Unknown">>
    /\ response.body.locations_by_level["Unknown"] = <<"X", "Y">>

\* Frame g holds the rows of frame f, each once, by ascending date
SortedRowsOf(g, f) ==
    /\ g.columns = f.columns
    /\ Len(g.rows) = Len(f.rows)
    /\ {g.rows[i] : i \in 1..Len(g.rows)} = {f.rows[i] : i \in 1..Len(f.rows)}
    /\ \A i, j \in 1..Len(g.rows) :
            i < j => Column(g, L_date)[i].n <= Column(g, L_date)[j].n

\* The sum of column col over the last Min(k, 7) rows of frame g
WindowSum(g, col) ==
    SumCells(Column(g, col),
             Len(g.rows) - Min(Len(g.rows), KpiWindow) + 1, Len(g.rows))

WindowOk(col, key) ==
    /\ key \in DOMAIN response.body.kpi <=> HasCol(DF, col)
    /\ HasCol(DF, col) => response.body.kpi[key] = Num(WindowSum(locals["df"], col))

\* C4: for a View of k > 0 records, new_cases_7d (new_deaths_7d) is the sum
\* of the field over the last min(k, 7) records of the View sorted by date,
\* a missing value counting 0; the key is present exactly when the column is
\* in the schema.
C4_TrailingWindow ==
    (Answered("summary") /\ locals["view"].rows # <<>>) =>
        /\ SortedRowsOf(locals["df"], locals["view"])
        /\ WindowOk(L_new_cases, "new_cases_7d")
        /\ WindowOk(L_new_deaths, "new_deaths_7d")

C4_Witness ==
    /\ Answered("summary")
    /\ response.body.count > KpiWindow
    /\ "new_cases_7d" \in DOMAIN response.body.kpi
    /\ response.body.kpi["new_cases_7d"].n
            < SumCells(Column(locals["view"], L_new_cases), 1, Len(locals["view"].rows))
    /\ \E i \in 2..Len(locals["df"].rows) : Column(locals["df"], L_new_cases)[i] = NaN

\* Record i of the view explains the total reported under key
TotalOk(i, col, key) ==
    /\ key \in DOMAIN response.body.kpi
            <=> (HasCol(DF, col) /\ notna(Column(locals["view"], col)[i]))
    /\ key \in DOMAIN response.body.kpi =>
            response.body.kpi[key] = Num(Column(locals["view"], col)[i].n)

\* C6: for a View with records, min_date and max_date are its smallest and
\* largest date, and total_cases (total_deaths) is the value of a record
\* carrying the largest date, present exactly when the field is in the schema
\* and that record's value is not missing.
C6_LatestTotals ==
    (Answered("summary") /\ locals["view"].rows # <<>>) =>
        \E lo, hi \in 1..Len(locals["view"].rows) :
            /\ \A i \in 1..Len(locals["view"].rows) :
                /\ Column(locals["view"], L_date)[lo].n <= Column(locals["view"], L_date)[i].n
                /\ Column(locals["view"], L_date)[i].n <= Column(locals["view"], L_date)[hi].n
            /\ response.body.kpi["min_date"]
                    = Str(DateIso(Column(locals["view"], L_date)[lo].n))
            /\ response.body.kpi["max_date"]
                    = Str(DateIso(Column(locals["view"], L_date)[hi].n))
            /\ TotalOk(hi, L_total_cases, "total_cases")
            /\ TotalOk(hi, L_total_deaths, "total_deaths")

C6_Witness ==
    /\ Answered("summary")
    /\ response.body.count >= 2
    /\ response.body.kpi["min_date"] # response.body.kpi["max_date"]
    /\ HasCol(DF, L_total_deaths)
    /\ "total_cases" \in DOMAIN response.body.kpi
    /\ "total_deaths" \notin DOMAIN response.body.kpi

\* The limit the claim gives for the arguments
ClaimedLimit(args) ==
    IF "limit" \notin DOMAIN args \/ ~ParseInt(args["limit"]).ok THEN DefaultLimit
    ELSE IF ParseInt(args["limit"]).n < MinLimit THEN MinLimit
    ELSE IF ParseInt(args["limit"]).n > MaxLimit THEN MaxLimit
    ELSE ParseInt(args["limit"]).n

\* The position in the view of the row with index label x
ViewPos(x) ==
    CHOOSE r \in 1..Len(locals["view"].rows) : locals["view"].rows[r].idx = x

ViewDate(x) == Column(locals["view"], L_date)[ViewPos(x)].n

\* C5: the listing holds min(N, len(View)) records, N the limit clamped to
\* [1, 20000] when it parses as an integer and 3000 otherwise; they are the
\* last of the View by date (no record left out is later than one returned)
\* and are listed by ascending date.
C5_Listing ==
    Answered("cases") =>
        /\ locals["limit_n"] = ClaimedLimit(request.args)
        /\ response.body.count
                = Min(ClaimedLimit(request.args), Len(locals["view"].rows))
        /\ Len(response.body.data) = response.body.count
        /\ Len(locals["out"].rows) = response.body.count
        /\ Cardinality({locals["out"].rows[i].idx : i \in 1..Len(locals["out"].rows)})
                = response.body.count
        /\ \A i \in 1..Len(locals["out"].rows) :
            /\ \E r \in 1..Len(locals["view"].rows) :
                    locals["view"].rows[r].idx = locals["out"].rows[i].idx
            /\ response.body.data[i][L_date]
                    = Str(DateIso(ViewDate(locals["out"].rows[i].idx)))
            /\ response.body.data[i][L_location]
                    = Column(locals["view"], L_location)[ViewPos(locals["out"].rows[i].idx)]
            /\ \A j \in 1..Len(locals["out"].rows) :
                    i < j => ViewDate(locals["out"].rows[i].idx)
                                <= ViewDate(locals["out"].rows[j].idx)
            /\ \A r \in 1..Len(locals["view"].rows) :
                    (\A j \in 1..Len(locals["out"].rows) :
                        locals["out"].rows[j].idx # locals["view"].rows[r].idx)
                    => Column(locals["view"], L_date)[r].n
                            <= ViewDate(locals["out"].rows[i].idx)

C5_Witness ==
    /\ Answered("cases")
    /\ "limit" \in DOMAIN request.args
    /\ request.args["limit"] = <<"0">>
    /\ locals["limit_n"] = MinLimit
    /\ response.body.count = 1
    /\ Len(locals["view"].rows) >= 2

\* C10: normalize_columns is idempotent on every raw label of letters,
\* spaces, other white space and slashes, and leaves the labels of the table
\* it is given unchanged.
C10_Idempotent ==
    [][ /\ raw' = raw
        /\ "twice" \in DOMAIN locals' =>
                locals'["twice"].columns = locals'["once"].columns ]_vars

C10_Witness ==
    /\ "twice" \in DOMAIN locals
    /\ raw.columns = << <<" ", "A", "/">> >>
    /\ locals["once"].columns = << <<"a", "_">> >>
    /\ locals["twice"].columns = << <<"a", "_">> >>

====
